---- MODULE Spec2Model ----
(***************************************************************************)
(* A model of evds_scraper/scraper.py: the selector resolver               *)
(* (EVDSScraper._select_base), the incremental table reader                *)
(* (EVDSScraper.parse_table) and the run of EVDSScraper.scrape with the    *)
(* operations it sequences.                                                *)
(*                                                                         *)
(* Texts are sequences of one-character strings, so that Python's string   *)
(* equality, `in` (substring), count, split and strip are computed on the  *)
(* characters and not assumed.                                             *)
(***************************************************************************)
EXTENDS Integers, Sequences, FiniteSets, TLC

VARIABLES
    \* ---- _select_base (one call) ----
    sel_target,     \* selector_value: [kind |-> "text"|"ord", text, n]
    sel_elements,   \* elements: the display text of each candidate, in list order
    sel_clickRaises,\* whether click_fn raises when it is called (environment)
    sel_pc,         \* position in _select_base
    sel_i,          \* index of the running for loop (1-based)
    sel_selected,   \* selected: 0 is None, k is elements[k-1]
    sel_getText,    \* number of get_text_fn calls made so far
    sel_clicked,    \* the candidates click_fn was called on, in call order
    sel_result,     \* what the call gave its caller
    \* ---- parse_table (one call) ----
    pt_begin,       \* begin_date
    pt_alt,         \* alternative_date: [some |-> BOOLEAN, val |-> text]
    pt_ncols,       \* len(column_names)
    pt_container,   \* whether scroll_container is an element (not None)
    pt_pc,          \* position in parse_table
    pt_left,        \* rows of the current batch not yet visited by the for loop
    pt_processed,   \* processed_rows
    pt_data,        \* data: the row_data mappings, as the cell texts by column index
    pt_found,       \* found_begin_date
    pt_result,      \* what the call gave its caller
    \* ---- history of the parse_table call (observation only) ----
    h_added,        \* row_date of every data.append, in order
    h_fetches,      \* number of wait_for_elements calls for the rows
    h_scrolls,      \* number of execute_script (scroll) calls
    h_rows,         \* number of rows handed to the for loop so far
    h_last,         \* the row the for loop visited last in the current batch
    h_skipped,      \* rows left unvisited in the batch when the loop broke
    \* ---- scrape (one run) ----
    cfg,            \* self.config: [nvars, frequency, begin_date, end_date,
                    \*               output_format, include_explanations]
    sc_pc,          \* position in scrape
    sc_i,           \* the variable (or interactive round) being processed, 1-based
    sc_success,     \* success_count of process_variables_automatically
    sc_begin,       \* begin_date as returned by set_dates
    sc_table,       \* table_data
    sc_expl,        \* explanations: [some |-> BOOLEAN, val |-> list]
    sc_result,      \* what scrape gave its caller: [kind, val]
    \* ---- process_single_variable (the running call) ----
    psv_pc,         \* the step to run next, "cart", "ret" or "idle"
    psv_log,        \* the steps run so far: [step, list, res]
    psv_cart,       \* add_to_cart of this call: "none", "done" or "raised"
    psv_ret,        \* the value returned
    \* ---- the frequency dropdown and the date fields ----
    fq_options,     \* the option values select_frequency found
    fq_value,       \* the value of the dropdown
    fq_sets,        \* number of scripts run that set the dropdown
    dt_asked,       \* the answers read by input() in set_dates, in order
    dt_typed,       \* the texts typed with send_keys in set_dates, in order
    \* ---- history of the scrape run (observation only) ----
    h_vars,         \* per variable processed: [i, ok, cart]
    h_calls         \* the operations scrape invoked, in order

selVars == <<sel_target, sel_elements, sel_clickRaises, sel_pc, sel_i,
             sel_selected, sel_getText, sel_clicked, sel_result>>
ptVars == <<pt_begin, pt_alt, pt_ncols, pt_container, pt_pc, pt_left,
            pt_processed, pt_data, pt_found, pt_result>>
hVars == <<h_added, h_fetches, h_scrolls, h_rows, h_last, h_skipped>>
scVars == <<cfg, sc_pc, sc_i, sc_success, sc_begin, sc_table, sc_expl,
            sc_result, psv_pc, psv_log, psv_cart, psv_ret, fq_options,
            fq_value, fq_sets, dt_asked, dt_typed, h_vars, h_calls>>
vars == <<selVars, ptVars, hVars, scVars>>

\* ---------------------------------------------------------------- bounds
MaxTextLen == 2     \* longest display text / text target drawn for the resolver
MaxCands == 2       \* longest candidate list drawn for the resolver
MaxCols == 2        \* most column headers of the table
MaxFetch == 2       \* most batches fetched in one parse_table run
MaxRows == 3        \* most rows handed to the for loop in one parse_table run
MaxVars == 2        \* most variables of the config / interactive rounds of a run

\* ---------------------------------------------------------------- texts
Alphabet == {"a", "A"}

TextsUpTo(n) == UNION {[1..k -> Alphabet] : k \in 0..n}

\* Python's `a in b` for strings: a is a contiguous part of b ("" is in any b).
StrIn(a, b) ==
    \E k \in 0..(Len(b) - Len(a)) : SubSeq(b, k + 1, k + Len(a)) = a

\* The resolver scenario of the specification.
TxtPrices == <<"P","r","i","c","e","s">>
TxtExchangeRates == <<"E","x","c","h","a","n","g","e"," ","R","a","t","e","s">>
TxtMoneySupply == <<"M","o","n","e","y"," ","S","u","p","p","l","y">>
TxtRates == <<"R","a","t","e","s">>

NoText == <<>>
TextTarget(t) == [kind |-> "text", text |-> t, n |-> 0]
OrdTarget(n) == [kind |-> "ord", text |-> NoText, n |-> n]

Pending == [kind |-> "pending", val |-> NoText]
NoneResult == [kind |-> "none", val |-> NoText]
Raised == [kind |-> "raise", val |-> NoText]
Value(t) == [kind |-> "value", val |-> t]

\* ------------------------------------------------------------ _select_base
\* Mutant of ExactMatch: the first loop accepts a text that contains the target.
ExactMatch_Substring(t, text) == StrIn(t, text)

\* line 142: selector_value == text
ExactMatch(t, text) == t = text

\* Lower-casing of a text of the alphabet.
Lower(s) == [i \in DOMAIN s |-> IF s[i] = "A" THEN "a" ELSE s[i]]

\* Mutant of ContainMatch: containment in one direction only.
ContainMatch_OneWay(t, text) == StrIn(t, text)

\* Mutant of ContainMatch: containment that ignores case.
ContainMatch_NoCase(t, text) ==
    StrIn(Lower(t), Lower(text)) \/ StrIn(Lower(text), Lower(t))

\* line 150: selector_value in text or text in selector_value
ContainMatch(t, text) == StrIn(t, text) \/ StrIn(text, t)

\* line 154: 1 <= selector_value <= len(elements)
OrdinalInRange(n, len) == 1 <= n /\ n <= len

\* Mutant of OrdinalIndex: elements[selector_value - 2] (Python wraps -1 to the last).
OrdinalIndex_OffByOne(n) == IF n = 1 THEN Len(sel_elements) ELSE n - 1

\* line 155: elements[selector_value - 1], as a 1-based index
OrdinalIndex(n) == n

\* lines 161-164: what reaches the caller when click_fn was called on k.
\* The four click handlers return the candidate's text; an exception in
\* click_fn is caught by the except clause, which returns None.
ClickOutcome(k, raises) ==
    IF raises THEN NoneResult ELSE Value(sel_elements[k])

\* lines 136-137 and 154-155: the branch on the type of selector_value.
SelStart ==
    /\ sel_pc = "start"
    /\ IF sel_target.kind = "text"
       THEN /\ sel_pc' = "exact"
            /\ sel_selected' = 0
       ELSE /\ sel_pc' = "decide"
            /\ sel_selected' = IF OrdinalInRange(sel_target.n, Len(sel_elements))
                               THEN OrdinalIndex(sel_target.n)
                               ELSE 0
    /\ sel_i' = 1
    /\ UNCHANGED <<sel_target, sel_elements, sel_clickRaises, sel_getText,
                   sel_clicked, sel_result>>

\* lines 140-147: one iteration of the exact-match loop, or its exit.
SelExactStep ==
    /\ sel_pc = "exact"
    /\ IF sel_i <= Len(sel_elements)
       THEN /\ sel_getText' = sel_getText + 1
            /\ IF ExactMatch(sel_target.text, sel_elements[sel_i])
               THEN /\ sel_selected' = sel_i
                    /\ sel_pc' = "decide"
                    /\ sel_i' = sel_i
               ELSE /\ sel_i' = sel_i + 1
                    /\ UNCHANGED <<sel_selected, sel_pc>>
       ELSE /\ sel_pc' = "contain"
            /\ sel_i' = 1
            /\ UNCHANGED <<sel_selected, sel_getText>>
    /\ UNCHANGED <<sel_target, sel_elements, sel_clickRaises, sel_clicked,
                   sel_result>>

\* lines 148-152: one iteration of the containment loop, or its exit.
SelContainStep ==
    /\ sel_pc = "contain"
    /\ IF sel_i <= Len(sel_elements)
       THEN /\ sel_getText' = sel_getText + 1
            /\ IF ContainMatch(sel_target.text, sel_elements[sel_i])
               THEN /\ sel_selected' = sel_i
                    /\ sel_pc' = "decide"
                    /\ sel_i' = sel_i
               ELSE /\ sel_i' = sel_i + 1
                    /\ UNCHANGED <<sel_selected, sel_pc>>
       ELSE /\ sel_pc' = "decide"
            /\ UNCHANGED <<sel_selected, sel_getText, sel_i>>
    /\ UNCHANGED <<sel_target, sel_elements, sel_clickRaises, sel_clicked,
                   sel_result>>

\* lines 157-164: report None, or call click_fn on the selected candidate.
SelDecide ==
    /\ sel_pc = "decide"
    /\ IF sel_selected = 0
       THEN /\ sel_result' = NoneResult
            /\ UNCHANGED sel_clicked
       ELSE /\ sel_clicked' = Append(sel_clicked, sel_selected)
            /\ sel_result' = ClickOutcome(sel_selected, sel_clickRaises)
    /\ sel_pc' = "done"
    /\ UNCHANGED <<sel_target, sel_elements, sel_clickRaises, sel_i,
                   sel_selected, sel_getText>>

\* -------------------------------------------------------------- row keys
K_01_2023 == <<"0","1","-","2","0","2","3">>
K_02_2023 == <<"0","2","-","2","0","2","3">>
K_03_2023 == <<"0","3","-","2","0","2","3">>
K_2023_01 == <<"2","0","2","3","-","0","1">>
K_01_01_2023 == <<"0","1","-","0","1","-","2","0","2","3">>
K_2023_01_01 == <<"2","0","2","3","-","0","1","-","0","1">>
K_2023 == <<"2","0","2","3">>

\* begin_date values drawn: monthly in both orders, a day format, a year.
Targets == {K_01_2023, K_2023_01, K_01_01_2023, K_2023}

\* str.count('-')
CountHyphen(s) == Cardinality({i \in DOMAIN s : s[i] = "-"})

\* The text with the parts before and after its hyphen at position h exchanged.
SwapAt(b, h) == SubSeq(b, h + 1, Len(b)) \o <<"-">> \o SubSeq(b, 1, h - 1)

FirstHyphen(b) ==
    CHOOSE i \in DOMAIN b : b[i] = "-" /\ \A j \in 1..(i - 1) : b[j] # "-"
LastHyphen(b) ==
    CHOOSE i \in DOMAIN b : b[i] = "-" /\ \A j \in (i + 1)..Len(b) : b[j] # "-"

\* Keys a reader could mistake for the key b: b swapped around a hyphen.
Confusable(b) ==
    IF CountHyphen(b) = 0 THEN {}
    ELSE {SwapAt(b, FirstHyphen(b)), SwapAt(b, LastHyphen(b))}

\* Texts a first cell can show during a read for begin_date: the target, the
\* target between blanks, the keys confusable with it, two other months, and
\* an empty cell.
RawKeys ==
    {pt_begin, <<" ">> \o pt_begin \o <<" ">>, K_02_2023, K_03_2023, <<>>}
        \cup Confusable(pt_begin)

CellText == <<"v">>     \* the text of every cell after the first

\* A row element as the for loop finds it: stale (any access raises), or
\* n cells of which the first shows raw.
StaleRow == [stale |-> TRUE, n |-> 0, raw |-> <<>>]
NoRow == [stale |-> FALSE, n |-> 0, raw |-> <<>>]
RowPool ==
    {StaleRow} \cup
    {NoRow} \cup
    {[stale |-> FALSE, n |-> n, raw |-> r] : n \in 1..(MaxCols + 1), r \in RawKeys}

\* ------------------------------------------------------- string helpers
RECURSIVE LStrip(_)
LStrip(s) == IF s # <<>> /\ Head(s) = " " THEN LStrip(Tail(s)) ELSE s

RECURSIVE RStrip(_)
RStrip(s) ==
    IF s # <<>> /\ s[Len(s)] = " " THEN RStrip(SubSeq(s, 1, Len(s) - 1)) ELSE s

\* str.strip()
Strip(s) == RStrip(LStrip(s))

\* the position of the only hyphen of a text that has exactly one
HyphenAt(s) == CHOOSE i \in DOMAIN s : s[i] = "-"

NoAlt == [some |-> FALSE, val |-> <<>>]

\* Mutant of AlternativeDate: an alternate for every key with a hyphen,
\* swapped around its last hyphen (rsplit('-', 1)).
AlternativeDate_AnyHyphen(b) ==
    IF CountHyphen(b) >= 1
    THEN [some |-> TRUE, val |-> SwapAt(b, LastHyphen(b))]
    ELSE NoAlt

\* lines 609-613: alternative_date
AlternativeDate(b) ==
    IF CountHyphen(b) = 1
    THEN LET h == HyphenAt(b)
             month == SubSeq(b, 1, h - 1)
             year == SubSeq(b, h + 1, Len(b))
         IN [some |-> TRUE, val |-> year \o <<"-">> \o month]
    ELSE NoAlt

\* Mutant of IsMatch: the alternative date is not compared.
IsMatch_LiteralOnly(row_date, b, alt) == row_date = b

\* line 661: row_date == begin_date or (alternative_date and row_date == alternative_date)
IsMatch(row_date, b, alt) ==
    row_date = b \/ (alt.some /\ alt.val # <<>> /\ row_date = alt.val)

\* line 651: row_date and row_date not in processed_rows
IsNewKey(row_date, processed) == row_date # <<>> /\ row_date \notin processed

\* Mutant of HasAllCells: the cell count is not tested.
HasAllCells_Always(n, ncols) == TRUE

\* line 652: len(cells) >= len(column_names)
HasAllCells(n, ncols) == n >= ncols

\* lines 653-656: row_data, the stripped text of cell idx for idx < len(column_names)
RowData(r, ncols) ==
    [idx \in 1..(IF r.n < ncols THEN r.n ELSE ncols) |->
        IF idx = 1 THEN Strip(r.raw) ELSE Strip(CellText)]

\* line 682: the structure the except clause returns
EmptyResult == [kind |-> "empty", val |-> <<>>]
\* line 678: return data
RowsResult(d) == [kind |-> "rows", val |-> d]

\* ------------------------------------------------------------ parse_table
\* The two hyphen-delimited components of a one-hyphen key, swapped.
Swapped(b) ==
    LET h == HyphenAt(b)
    IN SubSeq(b, h + 1, Len(b)) \o <<"-">> \o SubSeq(b, 1, h - 1)

\* A row key that equals the target key or its swapped form.
KeyIsTarget(k, b) == k = b \/ (CountHyphen(b) = 1 /\ k = Swapped(b))

\* lines 607-634: the alternative date, the headers, the scroll container
\* (wait_for_elements gives [] and wait_for_element None on a timeout).
\* Reading a header's text may raise (a stale element): the except clause of
\* lines 680-682 then returns the empty structure.
PtStart ==
    /\ pt_pc = "start"
    /\ pt_alt' = AlternativeDate(pt_begin)
    /\ pt_processed' = {}
    /\ pt_data' = <<>>
    /\ pt_found' = FALSE
    /\ \E fails \in BOOLEAN :
          IF fails
          THEN /\ pt_ncols' = 0
               /\ pt_container' = FALSE
               /\ pt_result' = EmptyResult
               /\ pt_pc' = "done"
          ELSE /\ \E c \in 0..MaxCols : pt_ncols' = c
               /\ \E present \in BOOLEAN : pt_container' = present
               /\ pt_pc' = "fetch"
               /\ UNCHANGED pt_result
    /\ UNCHANGED <<pt_begin, pt_left>>
    /\ UNCHANGED hVars

\* lines 636-641: the while test and the rows now visible.
PtFetch ==
    /\ pt_pc = "fetch"
    /\ ~pt_found
    /\ h_fetches < MaxFetch
    /\ \E m \in 0..(MaxRows - h_rows) :
          /\ pt_left' = m
          /\ h_rows' = h_rows + m
    /\ h_fetches' = h_fetches + 1
    /\ pt_pc' = "scan"
    /\ UNCHANGED <<pt_begin, pt_alt, pt_ncols, pt_container, pt_processed,
                   pt_data, pt_found, pt_result>>
    /\ UNCHANGED <<h_added, h_scrolls, h_last, h_skipped>>

\* Mutant of ScanRow: the loop does not break on a match.
ScanRow_NoBreak(r) ==
    LET row_date == Strip(r.raw)
        kept == /\ ~r.stale /\ r.n > 0
                /\ IsNewKey(row_date, pt_processed)
                /\ HasAllCells(r.n, pt_ncols)
        match == kept /\ IsMatch(row_date, pt_begin, pt_alt)
    IN /\ pt_data' = IF kept THEN Append(pt_data, RowData(r, pt_ncols)) ELSE pt_data
       /\ h_added' = IF kept THEN Append(h_added, row_date) ELSE h_added
       /\ pt_found' = (pt_found \/ match)
       /\ pt_left' = pt_left - 1
       /\ h_skipped' = h_skipped
       /\ h_last' = r

\* lines 643-668: the body of the for loop on one row r of the batch.
ScanRow(r) ==
    LET row_date == Strip(r.raw)
        read == ~r.stale /\ r.n > 0
        fresh == read /\ IsNewKey(row_date, pt_processed)
        kept == fresh /\ HasAllCells(r.n, pt_ncols)
        match == kept /\ IsMatch(row_date, pt_begin, pt_alt)
    IN /\ pt_data' = IF kept THEN Append(pt_data, RowData(r, pt_ncols)) ELSE pt_data
       /\ h_added' = IF kept THEN Append(h_added, row_date) ELSE h_added
       /\ pt_found' = match
       /\ pt_left' = IF match THEN 0 ELSE pt_left - 1
       /\ h_skipped' = IF match THEN pt_left - 1 ELSE h_skipped
       /\ h_last' = r

PtScanRow ==
    /\ pt_pc = "scan"
    /\ pt_left > 0
    /\ \E r \in RowPool : ScanRow(r)
    /\ UNCHANGED <<pt_begin, pt_alt, pt_ncols, pt_container, pt_pc,
                   pt_processed, pt_result>>
    /\ UNCHANGED <<h_fetches, h_scrolls, h_rows>>

\* Mutant of PtEndBatch: the scroll is not guarded by found_begin_date.
PtEndBatch_AlwaysScroll ==
    /\ pt_pc = "scan"
    /\ pt_left = 0
    /\ pt_pc' = "scroll"
    /\ UNCHANGED <<pt_begin, pt_alt, pt_ncols, pt_container, pt_left,
                   pt_processed, pt_data, pt_found, pt_result>>
    /\ h_last' = NoRow
    /\ UNCHANGED <<h_added, h_fetches, h_scrolls, h_rows, h_skipped>>

\* line 643 (the loop is over) and line 670: if not found_begin_date.
PtEndBatch ==
    /\ pt_pc = "scan"
    /\ pt_left = 0
    /\ pt_pc' = IF pt_found THEN "ret" ELSE "scroll"
    /\ UNCHANGED <<pt_begin, pt_alt, pt_ncols, pt_container, pt_left,
                   pt_processed, pt_data, pt_found, pt_result>>
    /\ h_last' = NoRow
    /\ UNCHANGED <<h_added, h_fetches, h_scrolls, h_rows, h_skipped>>

\* Mutant of PtAdvance: no except clause around the scroll, the failure of the
\* script leaves parse_table as an exception.
PtAdvance_Propagates ==
    /\ pt_pc = "scroll"
    /\ h_scrolls' = h_scrolls + 1
    /\ \E fails \in BOOLEAN :
          /\ ~pt_container => fails
          /\ IF fails
             THEN /\ pt_result' = Raised
                  /\ pt_pc' = "done"
             ELSE /\ pt_pc' = "fetch"
                  /\ UNCHANGED pt_result
    /\ UNCHANGED <<pt_begin, pt_alt, pt_ncols, pt_container, pt_left,
                   pt_processed, pt_data, pt_found>>
    /\ UNCHANGED <<h_added, h_fetches, h_rows, h_last, h_skipped>>

\* lines 671-675 and 680-682: scrollTop += 100 on the container; the script
\* fails on a missing container and may fail on a present one, and the
\* except clause of parse_table then returns the empty structure.
PtAdvance ==
    /\ pt_pc = "scroll"
    /\ h_scrolls' = h_scrolls + 1
    /\ \E fails \in BOOLEAN :
          /\ ~pt_container => fails
          /\ IF fails
             THEN /\ pt_result' = EmptyResult
                  /\ pt_pc' = "done"
             ELSE /\ pt_pc' = "fetch"
                  /\ UNCHANGED pt_result
    /\ UNCHANGED <<pt_begin, pt_alt, pt_ncols, pt_container, pt_left,
                   pt_processed, pt_data, pt_found>>
    /\ UNCHANGED <<h_added, h_fetches, h_rows, h_last, h_skipped>>

\* lines 677-678: return data
PtReturn ==
    /\ pt_pc = "ret"
    /\ pt_result' = RowsResult(pt_data)
    /\ pt_pc' = "done"
    /\ UNCHANGED <<pt_begin, pt_alt, pt_ncols, pt_container, pt_left,
                   pt_processed, pt_data, pt_found>>
    /\ UNCHANGED hVars

\* ------------------------------------------------------------ the config
\* An Optional[str] field: None, or a text.
NoneStr == [some |-> FALSE, val |-> <<>>]
Str(t) == [some |-> TRUE, val |-> t]

\* Python's truth value of an Optional[str]: None and "" are false.
Truthy(o) == o.some /\ o.val # <<>>

UpperLetters == <<"A","B","C","D","E","F","G","H","I","J","K","L","M",
                  "N","O","P","Q","R","S","T","U","V","W","X","Y","Z">>
LowerLetters == <<"a","b","c","d","e","f","g","h","i","j","k","l","m",
                  "n","o","p","q","r","s","t","u","v","w","x","y","z">>

\* str.lower()
PyLower(s) ==
    [i \in DOMAIN s |->
        IF \E k \in DOMAIN UpperLetters : UpperLetters[k] = s[i]
        THEN LowerLetters[CHOOSE k \in DOMAIN UpperLetters : UpperLetters[k] = s[i]]
        ELSE s[i]]

W_daily == <<"d","a","i","l","y">>
W_workday == <<"w","o","r","k","d","a","y">>
W_weekly == <<"w","e","e","k","l","y">>
W_monthly == <<"m","o","n","t","h","l","y">>
W_quarterly == <<"q","u","a","r","t","e","r","l","y">>
W_semiannual == <<"s","e","m","i","a","n","n","u","a","l">>
W_annual == <<"a","n","n","u","a","l">>
W_Monthly == <<"M","o","n","t","h","l","y">>
W_biweekly == <<"b","i","w","e","e","k","l","y">>

\* lines 43-51: the class attribute FREQUENCIES, key to dropdown token
FREQUENCIES ==
    (W_daily :> "Date") @@ (W_workday :> "WORKDAY") @@
    (W_weekly :> "YEARWEEK") @@ (W_monthly :> "MONTH") @@
    (W_quarterly :> "QUARTER") @@ (W_semiannual :> "SEMIYEAR") @@
    (W_annual :> "YEAR")

Tokens == {FREQUENCIES[k] : k \in DOMAIN FREQUENCIES}

NoToken == "None"

\* Mutant of FreqGet: the key is looked up as written.
FreqGet_CaseSensitive(key) ==
    IF key \in DOMAIN FREQUENCIES THEN FREQUENCIES[key] ELSE NoToken

\* line 493: self.FREQUENCIES.get(self.config.frequency.lower())
FreqGet(key) ==
    IF PyLower(key) \in DOMAIN FREQUENCIES
    THEN FREQUENCIES[PyLower(key)]
    ELSE NoToken

W_Excel == <<"E","x","c","e","l">>
W_excel == <<"e","x","c","e","l">>
W_df == <<"d","f">>
W_dataframe == <<"d","a","t","a","f","r","a","m","e">>
W_dict == <<"d","i","c","t">>

\* The values of the config drawn.
ConfigFrequencies ==
    {NoneStr, Str(<<>>), Str(W_monthly), Str(W_Monthly), Str(W_biweekly)}
ConfigBegins == {NoneStr, Str(K_01_2023)}
ConfigEnds == {NoneStr, Str(K_03_2023)}
ConfigFormats == {W_Excel, W_df, W_dataframe, W_dict}

Configs ==
    [nvars : 0..MaxVars,
     frequency : ConfigFrequencies,
     begin_date : ConfigBegins,
     end_date : ConfigEnds,
     output_format : ConfigFormats,
     include_explanations : BOOLEAN]

\* Mutant of IsDateModeAutomatic: the two dates decide alone.
IsDateModeAutomatic_DatesOnly(c) ==
    c.begin_date.some /\ c.end_date.some

\* lines 35-39: ScraperConfig.is_date_mode_automatic
IsDateModeAutomatic(c) ==
    c.frequency.some /\ c.begin_date.some /\ c.end_date.some

\* ------------------------------------------------ process_single_variable
Steps == <<"category", "subcategory", "item", "calculation_type">>

StepNo(step) == CHOOSE k \in DOMAIN Steps : Steps[k] = step

\* The step after a step; add_to_cart follows the last.
AfterStep(step) ==
    IF StepNo(step) < Len(Steps) THEN Steps[StepNo(step) + 1] ELSE "cart"

\* The display texts of the candidates and the fields of a Variable drawn.
PsvTexts == {<<>>, <<"a">>}
PsvFields == {<<"a">>, <<"A">>}
PsvLists == UNION {[1..k -> PsvTexts] : k \in 0..MaxCands}

\* lines 219-224: the subcategories are kept by their stripped text when it
\* is not empty; lines 226-267 and 337-339: the other lists are not filtered.
ValidCandidates(step, raw) ==
    IF step = "subcategory"
    THEN LET kept == SelectSeq(raw, LAMBDA t : Strip(t) # <<>>)
         IN [j \in DOMAIN kept |-> Strip(kept[j])]
    ELSE raw

\* lines 138-155 in one step: the candidate _select_base selects for a text
\* target (0: none): the first exact match, else the first containment match.
SelectIndex(t, elements) ==
    LET exact == {k \in DOMAIN elements : ExactMatch(t, elements[k])}
        contain == {k \in DOMAIN elements : ContainMatch(t, elements[k])}
        First(S) == CHOOSE k \in S : \A j \in S : k <= j
    IN IF exact # {} THEN First(exact)
       ELSE IF contain # {} THEN First(contain)
       ELSE 0

\* lines 129-164 in one step, with the click handlers of lines 166-217: the
\* text of the selected candidate, None when nothing is selected or the
\* click raises.
SelectBase(t, elements, raises) ==
    IF SelectIndex(t, elements) = 0 \/ raises
    THEN NoneResult
    ELSE Value(elements[SelectIndex(t, elements)])

\* Mutant of StepFailed: only None counts as a failed selection.
StepFailed_NoneOnly(res) == res.kind # "value"

\* lines 355, 366, 384, 395: `if not <result>`, true of None and of ""
StepFailed(res) == res.kind # "value" \/ res.val = <<>>

StepEntry(step, list, res) == [step |-> step, list |-> list, res |-> res]

\* lines 349-397, one step of the four: the candidates are fetched (only the
\* category fetch cannot raise), an empty list or a failed selection returns
\* False, an exception returns False through lines 402-404.
PsvStep ==
    /\ sc_pc = "auto"
    /\ psv_pc \in {Steps[k] : k \in DOMAIN Steps}
    /\ \E raw \in PsvLists, fetchRaises \in BOOLEAN,
          field \in PsvFields, clickRaises \in BOOLEAN :
          LET cands == ValidCandidates(psv_pc, raw)
              res == SelectBase(field, cands, clickRaises)
          IN IF fetchRaises /\ psv_pc # "category"
             THEN /\ psv_log' = Append(psv_log, StepEntry(psv_pc, "raise", Pending))
                  /\ psv_ret' = FALSE
                  /\ psv_pc' = "ret"
             ELSE IF cands = <<>>
             THEN /\ psv_log' = Append(psv_log, StepEntry(psv_pc, "empty", Pending))
                  /\ psv_ret' = FALSE
                  /\ psv_pc' = "ret"
             ELSE IF StepFailed(res)
             THEN /\ psv_log' = Append(psv_log, StepEntry(psv_pc, "some", res))
                  /\ psv_ret' = FALSE
                  /\ psv_pc' = "ret"
             ELSE /\ psv_log' = Append(psv_log, StepEntry(psv_pc, "some", res))
                  /\ psv_pc' = AfterStep(psv_pc)
                  /\ UNCHANGED psv_ret
    /\ UNCHANGED <<cfg, sc_pc, sc_i, sc_success, sc_begin, sc_table, sc_expl,
                   sc_result, psv_cart, fq_options, fq_value, fq_sets,
                   dt_asked, dt_typed, h_vars, h_calls>>

\* lines 399-404 with add_to_cart (lines 325-329): the click raises when the
\* button was not found, and the variable then returns False.
PsvAddToCart ==
    /\ sc_pc = "auto"
    /\ psv_pc = "cart"
    /\ h_calls' = Append(h_calls, "add_to_cart")
    /\ \E raises \in BOOLEAN :
          /\ psv_cart' = IF raises THEN "raised" ELSE "done"
          /\ psv_ret' = ~raises
    /\ psv_pc' = "ret"
    /\ UNCHANGED <<cfg, sc_pc, sc_i, sc_success, sc_begin, sc_table, sc_expl,
                   sc_result, psv_log, fq_options, fq_value, fq_sets,
                   dt_asked, dt_typed, h_vars>>

\* --------------------------------------------- process_variables_automatically
\* line 414-416: the for loop calls process_single_variable on the next variable.
PvaCall ==
    /\ sc_pc = "auto"
    /\ psv_pc = "idle"
    /\ sc_i <= cfg.nvars
    /\ psv_pc' = "category"
    /\ psv_log' = <<>>
    /\ psv_cart' = "none"
    /\ psv_ret' = FALSE
    /\ UNCHANGED <<cfg, sc_pc, sc_i, sc_success, sc_begin, sc_table, sc_expl,
                   sc_result, fq_options, fq_value, fq_sets, dt_asked,
                   dt_typed, h_vars, h_calls>>

\* Mutant of PvaAccount: the loop is left at the first variable that failed.
PvaAccount_StopOnFailure ==
    /\ sc_pc = "auto"
    /\ psv_pc = "ret"
    /\ sc_success' = IF psv_ret THEN sc_success + 1 ELSE sc_success
    /\ h_vars' = Append(h_vars, [i |-> sc_i, ok |-> psv_ret, cart |-> psv_cart])
    /\ sc_i' = IF psv_ret THEN sc_i + 1 ELSE cfg.nvars + 1
    /\ psv_pc' = "idle"
    /\ UNCHANGED <<cfg, sc_pc, sc_begin, sc_table, sc_expl, sc_result,
                   psv_log, psv_cart, psv_ret, fq_options, fq_value, fq_sets,
                   dt_asked, dt_typed, h_calls>>

\* lines 416-420: the result of the variable is counted and the loop goes on.
PvaAccount ==
    /\ sc_pc = "auto"
    /\ psv_pc = "ret"
    /\ sc_success' = IF psv_ret THEN sc_success + 1 ELSE sc_success
    /\ h_vars' = Append(h_vars, [i |-> sc_i, ok |-> psv_ret, cart |-> psv_cart])
    /\ sc_i' = sc_i + 1
    /\ psv_pc' = "idle"
    /\ UNCHANGED <<cfg, sc_pc, sc_begin, sc_table, sc_expl, sc_result,
                   psv_log, psv_cart, psv_ret, fq_options, fq_value, fq_sets,
                   dt_asked, dt_typed, h_calls>>

\* ------------------------------------------------------------------ scrape
ScPending == [kind |-> "pending", val |-> ""]
\* lines 481-483: the exception is printed and raised again
ScRaise(e) == [kind |-> "raise", val |-> e]
\* line 463: the outcome of save_as_excel
ScBool(b) == [kind |-> "bool", val |-> b]
\* lines 469-472: the DataFrame
ScFrame == [kind |-> "frame", val |-> ""]
\* lines 474-479: the mapping, by its keys
ScMapping(keys) == [kind |-> "mapping", val |-> keys]

\* lines 430-438: the page-load check and the branch on config.variables.
ScPageLoad ==
    /\ sc_pc = "start"
    /\ \E loaded \in BOOLEAN :
          IF ~loaded
          THEN /\ sc_result' = ScRaise("Exception")
               /\ sc_pc' = "done"
          ELSE /\ sc_pc' = IF cfg.nvars > 0 THEN "auto" ELSE "interactive"
               /\ UNCHANGED sc_result
    /\ UNCHANGED <<cfg, sc_i, sc_success, sc_begin, sc_table, sc_expl,
                   psv_pc, psv_log, psv_cart, psv_ret, fq_options, fq_value,
                   fq_sets, dt_asked, dt_typed, h_vars, h_calls>>

\* lines 422-423 and 435-436: the loop is over; scrape raises when no
\* variable succeeded.
PvaReturn ==
    /\ sc_pc = "auto"
    /\ psv_pc = "idle"
    /\ sc_i > cfg.nvars
    /\ IF sc_success > 0
       THEN /\ sc_pc' = "freq"
            /\ UNCHANGED sc_result
       ELSE /\ sc_result' = ScRaise("Exception")
            /\ sc_pc' = "done"
    /\ UNCHANGED <<cfg, sc_i, sc_success, sc_begin, sc_table, sc_expl,
                   psv_pc, psv_log, psv_cart, psv_ret, fq_options, fq_value,
                   fq_sets, dt_asked, dt_typed, h_vars, h_calls>>

\* lines 440-448: one round of the interactive loop.  The four select_*
\* calls give a text or None and never raise; add_to_cart is always called
\* and its exception leaves scrape.
ScInteractiveRound ==
    /\ sc_pc = "interactive"
    /\ h_calls' = Append(h_calls, "add_to_cart")
    /\ \E raises \in BOOLEAN, more \in BOOLEAN :
          IF raises
          THEN /\ sc_result' = ScRaise("JavascriptException")
               /\ sc_pc' = "done"
               /\ UNCHANGED sc_i
          ELSE /\ more => sc_i < MaxVars
               /\ sc_i' = IF more THEN sc_i + 1 ELSE sc_i
               /\ sc_pc' = IF more THEN "interactive" ELSE "freq"
               /\ UNCHANGED sc_result
    /\ UNCHANGED <<cfg, sc_success, sc_begin, sc_table, sc_expl,
                   psv_pc, psv_log, psv_cart, psv_ret, fq_options, fq_value,
                   fq_sets, dt_asked, dt_typed, h_vars>>

\* The option values a dropdown may offer.
DropdownOptions == {Tokens, Tokens \ {"MONTH"}}

\* lines 485-530: select_frequency.  A missing dropdown raises at line 489;
\* a true config.frequency is looked up and set, or ValueError is raised; a
\* false one (None, "") leaves the choice to the user.
ScSelectFrequency ==
    /\ sc_pc = "freq"
    /\ h_calls' = Append(h_calls, "select_frequency")
    /\ \E present \in BOOLEAN, opts \in DropdownOptions :
          /\ fq_options' = IF present THEN opts ELSE {}
          /\ IF ~present
             THEN /\ sc_result' = ScRaise("AttributeError")
                  /\ sc_pc' = "done"
                  /\ UNCHANGED <<fq_value, fq_sets>>
             ELSE IF Truthy(cfg.frequency)
             THEN IF FreqGet(cfg.frequency.val) = NoToken
                     \/ FreqGet(cfg.frequency.val) \notin opts
                  THEN /\ sc_result' = ScRaise("ValueError")
                       /\ sc_pc' = "done"
                       /\ UNCHANGED <<fq_value, fq_sets>>
                  ELSE /\ fq_value' = FreqGet(cfg.frequency.val)
                       /\ fq_sets' = fq_sets + 1
                       /\ sc_pc' = "dates"
                       /\ UNCHANGED sc_result
             ELSE \E choice \in opts :
                       /\ fq_value' = choice
                       /\ fq_sets' = fq_sets + 1
                       /\ sc_pc' = "dates"
                       /\ UNCHANGED sc_result
    /\ UNCHANGED <<cfg, sc_i, sc_success, sc_begin, sc_table, sc_expl,
                   psv_pc, psv_log, psv_cart, psv_ret, dt_asked, dt_typed,
                   h_vars>>

\* What the user answers to the two prompts of set_dates.
PromptAnswers == {<<" ">> \o K_01_2023 \o <<" ">>}

\* Mutant of ScSetDates: it returns normally although a field is missing.
ScSetDates_Swallows ==
    /\ sc_pc = "dates"
    /\ h_calls' = Append(h_calls, "set_dates")
    /\ \E failAt \in {"none", "frekansSelect", "beginDate", "endDate"},
          ansBegin \in PromptAnswers, ansEnd \in PromptAnswers :
          LET auto == IsDateModeAutomatic(cfg)
              begin == IF auto THEN cfg.begin_date.val ELSE Strip(ansBegin)
              end == IF auto THEN cfg.end_date.val ELSE Strip(ansEnd)
          IN /\ dt_asked' = IF failAt = "frekansSelect" \/ auto
                            THEN <<>> ELSE <<ansBegin, ansEnd>>
             /\ dt_typed' = CASE failAt \in {"frekansSelect", "beginDate"} -> <<>>
                              [] failAt = "endDate" -> <<begin>>
                              [] OTHER -> <<begin, end>>
             /\ sc_begin' = begin
             /\ sc_pc' = "report"
             /\ UNCHANGED sc_result
    /\ UNCHANGED <<cfg, sc_i, sc_success, sc_table, sc_expl, psv_pc, psv_log,
                   psv_cart, psv_ret, fq_options, fq_value, fq_sets, h_vars>>

\* lines 563-599: set_dates.  The dropdown is read first (line 568), the
\* dates come from the config in automatic date mode and from two prompts
\* otherwise, and each is typed into its field; a missing element raises at
\* lines 568, 586 or 592 and the exception is raised again (line 599).
ScSetDates ==
    /\ sc_pc = "dates"
    /\ h_calls' = Append(h_calls, "set_dates")
    /\ \E failAt \in {"none", "frekansSelect", "beginDate", "endDate"},
          ansBegin \in PromptAnswers, ansEnd \in PromptAnswers :
          LET auto == IsDateModeAutomatic(cfg)
              begin == IF auto THEN cfg.begin_date.val ELSE Strip(ansBegin)
              end == IF auto THEN cfg.end_date.val ELSE Strip(ansEnd)
          IN /\ dt_asked' = IF failAt = "frekansSelect" \/ auto
                            THEN <<>> ELSE <<ansBegin, ansEnd>>
             /\ dt_typed' = CASE failAt \in {"frekansSelect", "beginDate"} -> <<>>
                              [] failAt = "endDate" -> <<begin>>
                              [] OTHER -> <<begin, end>>
             /\ IF failAt = "none"
                THEN /\ sc_begin' = begin
                     /\ sc_pc' = "report"
                     /\ UNCHANGED sc_result
                ELSE /\ sc_result' = ScRaise("AttributeError")
                     /\ sc_pc' = "done"
                     /\ UNCHANGED sc_begin
    /\ UNCHANGED <<cfg, sc_i, sc_success, sc_table, sc_expl, psv_pc, psv_log,
                   psv_cart, psv_ret, fq_options, fq_value, fq_sets, h_vars>>

\* Mutant of ScCreateReport: the report is also created before the dates.
ScCreateReport_Early ==
    /\ sc_pc \in {"dates", "report"}
    /\ h_calls' = Append(h_calls, "create_report")
    /\ \E raises \in BOOLEAN :
          IF raises
          THEN /\ sc_result' = ScRaise("JavascriptException")
               /\ sc_pc' = "done"
          ELSE /\ sc_pc' = IF sc_pc = "dates" THEN "dates" ELSE "output"
               /\ UNCHANGED sc_result
    /\ UNCHANGED <<cfg, sc_i, sc_success, sc_begin, sc_table, sc_expl,
                   psv_pc, psv_log, psv_cart, psv_ret, fq_options, fq_value,
                   fq_sets, dt_asked, dt_typed, h_vars>>

\* line 459 with create_report (lines 331-335): the click raises when the
\* button was not found.
ScCreateReport ==
    /\ sc_pc = "report"
    /\ h_calls' = Append(h_calls, "create_report")
    /\ \E raises \in BOOLEAN :
          IF raises
          THEN /\ sc_result' = ScRaise("JavascriptException")
               /\ sc_pc' = "done"
          ELSE /\ sc_pc' = "output"
               /\ UNCHANGED sc_result
    /\ UNCHANGED <<cfg, sc_i, sc_success, sc_begin, sc_table, sc_expl,
                   psv_pc, psv_log, psv_cart, psv_ret, fq_options, fq_value,
                   fq_sets, dt_asked, dt_typed, h_vars>>

\* line 462: self.config.output_format.lower() == "excel"
IsExcel(c) == PyLower(c.output_format) = W_excel

\* line 468: self.config.output_format.lower() in ["df", "dataframe"]
IsFrame(c) == PyLower(c.output_format) \in {W_df, W_dataframe}

\* lines 462-463 with save_as_excel (lines 744-768), which gives True, or
\* False after an exception.
ScSaveExcel ==
    /\ sc_pc = "output"
    /\ IsExcel(cfg)
    /\ h_calls' = Append(h_calls, "save_as_excel")
    /\ \E ok \in BOOLEAN : sc_result' = ScBool(ok)
    /\ sc_pc' = "done"
    /\ UNCHANGED <<cfg, sc_i, sc_success, sc_begin, sc_table, sc_expl,
                   psv_pc, psv_log, psv_cart, psv_ret, fq_options, fq_value,
                   fq_sets, dt_asked, dt_typed, h_vars>>

\* What parse_table(begin_date) gives: the list of rows it returns at line
\* 678 once the target row was added, or the empty structure of line 682.
ParseTableResults(begin) ==
    {EmptyResult, RowsResult(<< <<begin, CellText>> >>)}

\* line 465: table_data = self.parse_table(begin_date)
ScParseTable ==
    /\ sc_pc = "output"
    /\ ~IsExcel(cfg)
    /\ h_calls' = Append(h_calls, "parse_table")
    /\ \E t \in ParseTableResults(sc_begin) : sc_table' = t
    /\ sc_pc' = "explain"
    /\ UNCHANGED <<cfg, sc_i, sc_success, sc_begin, sc_expl, sc_result,
                   psv_pc, psv_log, psv_cart, psv_ret, fq_options, fq_value,
                   fq_sets, dt_asked, dt_typed, h_vars>>

\* The lists parse_explanations (lines 684-742) may give; it never raises.
ExplanationLists == {<<>>, <<"note">>}

\* line 466: parse_explanations() if include_explanations else None
ScExplanations ==
    /\ sc_pc = "explain"
    /\ IF cfg.include_explanations
       THEN /\ h_calls' = Append(h_calls, "parse_explanations")
            /\ \E e \in ExplanationLists : sc_expl' = Str(e)
       ELSE /\ sc_expl' = NoneStr
            /\ UNCHANGED h_calls
    /\ sc_pc' = "build"
    /\ UNCHANGED <<cfg, sc_i, sc_success, sc_begin, sc_table, sc_result,
                   psv_pc, psv_log, psv_cart, psv_ret, fq_options, fq_value,
                   fq_sets, dt_asked, dt_typed, h_vars>>

\* lines 468-479: the DataFrame, or the mapping built by subscripting
\* table_data with "data" and "columns"; subscripting the list of line 678
\* with a string raises TypeError, which leaves scrape (lines 481-483).
ScBuild ==
    /\ sc_pc = "build"
    /\ sc_result' =
          IF IsFrame(cfg) THEN ScFrame
          ELSE IF sc_table.kind = "rows" THEN ScRaise("TypeError")
          ELSE ScMapping({"data", "columns"} \cup
                         (IF Truthy(sc_expl) THEN {"explanations"} ELSE {}))
    /\ sc_pc' = "done"
    /\ UNCHANGED <<cfg, sc_i, sc_success, sc_begin, sc_table, sc_expl,
                   psv_pc, psv_log, psv_cart, psv_ret, fq_options, fq_value,
                   fq_sets, dt_asked, dt_typed, h_vars, h_calls>>

\* --------------------------------------------------------- specifications
SelIdle ==
    /\ sel_target = OrdTarget(0)
    /\ sel_elements = <<>>
    /\ sel_clickRaises = FALSE
    /\ sel_pc = "idle"
    /\ sel_i = 1
    /\ sel_selected = 0
    /\ sel_getText = 0
    /\ sel_clicked = <<>>
    /\ sel_result = Pending

PtIdle ==
    /\ pt_begin = <<>>
    /\ pt_alt = NoAlt
    /\ pt_ncols = 0
    /\ pt_container = FALSE
    /\ pt_pc = "idle"
    /\ pt_left = 0
    /\ pt_processed = {}
    /\ pt_data = <<>>
    /\ pt_found = FALSE
    /\ pt_result = Pending
    /\ h_added = <<>>
    /\ h_fetches = 0
    /\ h_scrolls = 0
    /\ h_rows = 0
    /\ h_last = NoRow
    /\ h_skipped = 0

ScIdle ==
    /\ cfg = [nvars |-> 0, frequency |-> NoneStr, begin_date |-> NoneStr,
              end_date |-> NoneStr, output_format |-> W_excel,
              include_explanations |-> TRUE]
    /\ sc_pc = "idle"
    /\ sc_i = 1
    /\ sc_success = 0
    /\ sc_begin = <<>>
    /\ sc_table = Pending
    /\ sc_expl = NoneStr
    /\ sc_result = ScPending
    /\ psv_pc = "idle"
    /\ psv_log = <<>>
    /\ psv_cart = "none"
    /\ psv_ret = FALSE
    /\ fq_options = {}
    /\ fq_value = "Date"
    /\ fq_sets = 0
    /\ dt_asked = <<>>
    /\ dt_typed = <<>>
    /\ h_vars = <<>>
    /\ h_calls = <<>>

CandidateLists == UNION {[1..k -> TextsUpTo(MaxTextLen)] : k \in 0..MaxCands}

SelTargets ==
    {TextTarget(t) : t \in TextsUpTo(MaxTextLen)} \cup
    {OrdTarget(n) : n \in (0 - 1)..(MaxCands + 1)}

\* A call of _select_base: the drawn inputs, and the scenario of the
\* specification with each of its texts and ordinals as the target.
SelInit ==
    /\ \/ /\ sel_elements \in CandidateLists
          /\ sel_target \in SelTargets
       \/ /\ sel_elements = <<TxtPrices, TxtExchangeRates, TxtMoneySupply>>
          /\ sel_target \in {TextTarget(TxtRates), TextTarget(TxtMoneySupply),
                             TextTarget(<<"x">>), OrdTarget(3), OrdTarget(4)}
    /\ sel_clickRaises \in BOOLEAN
    /\ sel_pc = "start"
    /\ sel_i = 1
    /\ sel_selected = 0
    /\ sel_getText = 0
    /\ sel_clicked = <<>>
    /\ sel_result = Pending
    /\ PtIdle
    /\ ScIdle

SelNext ==
    \/ SelStart /\ UNCHANGED <<ptVars, hVars, scVars>>
    \/ SelExactStep /\ UNCHANGED <<ptVars, hVars, scVars>>
    \/ SelContainStep /\ UNCHANGED <<ptVars, hVars, scVars>>
    \/ SelDecide /\ UNCHANGED <<ptVars, hVars, scVars>>

SelSpec == SelInit /\ [][SelNext]_vars

\* A call of parse_table(begin_date).
PtInit ==
    /\ SelIdle
    /\ ScIdle
    /\ pt_begin \in Targets
    /\ pt_alt = NoAlt
    /\ pt_ncols = 0
    /\ pt_container = FALSE
    /\ pt_pc = "start"
    /\ pt_left = 0
    /\ pt_processed = {}
    /\ pt_data = <<>>
    /\ pt_found = FALSE
    /\ pt_result = Pending
    /\ h_added = <<>>
    /\ h_fetches = 0
    /\ h_scrolls = 0
    /\ h_rows = 0
    /\ h_last = NoRow
    /\ h_skipped = 0

PtNext ==
    \/ PtStart /\ UNCHANGED <<selVars, scVars>>
    \/ PtFetch /\ UNCHANGED <<selVars, scVars>>
    \/ PtScanRow /\ UNCHANGED <<selVars, scVars>>
    \/ PtEndBatch /\ UNCHANGED <<selVars, scVars>>
    \/ PtAdvance /\ UNCHANGED <<selVars, scVars>>
    \/ PtReturn /\ UNCHANGED <<selVars, scVars>>

PtSpec == PtInit /\ [][PtNext]_vars

\* The interpreter runs parse_table to its next statement whenever it has one.
PtFairSpec == PtSpec /\ WF_vars(PtNext)

\* A run of scrape, from a config and a page in their drawn states.
ScInit ==
    /\ SelIdle
    /\ PtIdle
    /\ cfg \in Configs
    /\ sc_pc = "start"
    /\ sc_i = 1
    /\ sc_success = 0
    /\ sc_begin = <<>>
    /\ sc_table = Pending
    /\ sc_expl = NoneStr
    /\ sc_result = ScPending
    /\ psv_pc = "idle"
    /\ psv_log = <<>>
    /\ psv_cart = "none"
    /\ psv_ret = FALSE
    /\ fq_options = {}
    /\ fq_value = "Date"
    /\ fq_sets = 0
    /\ dt_asked = <<>>
    /\ dt_typed = <<>>
    /\ h_vars = <<>>
    /\ h_calls = <<>>

ScNext ==
    \/ ScPageLoad /\ UNCHANGED <<selVars, ptVars, hVars>>
    \/ PvaCall /\ UNCHANGED <<selVars, ptVars, hVars>>
    \/ PsvStep /\ UNCHANGED <<selVars, ptVars, hVars>>
    \/ PsvAddToCart /\ UNCHANGED <<selVars, ptVars, hVars>>
    \/ PvaAccount /\ UNCHANGED <<selVars, ptVars, hVars>>
    \/ PvaReturn /\ UNCHANGED <<selVars, ptVars, hVars>>
    \/ ScInteractiveRound /\ UNCHANGED <<selVars, ptVars, hVars>>
    \/ ScSelectFrequency /\ UNCHANGED <<selVars, ptVars, hVars>>
    \/ ScSetDates /\ UNCHANGED <<selVars, ptVars, hVars>>
    \/ ScCreateReport /\ UNCHANGED <<selVars, ptVars, hVars>>
    \/ ScSaveExcel /\ UNCHANGED <<selVars, ptVars, hVars>>
    \/ ScParseTable /\ UNCHANGED <<selVars, ptVars, hVars>>
    \/ ScExplanations /\ UNCHANGED <<selVars, ptVars, hVars>>
    \/ ScBuild /\ UNCHANGED <<selVars, ptVars, hVars>>

ScSpec == ScInit /\ [][ScNext]_vars

Init == SelInit \/ PtInit \/ ScInit
Next == SelNext \/ PtNext \/ ScNext
Spec == Init /\ [][Next]_vars

\* ================================================================ claims
\* ---- the resolver, under SelSpec ----
IsOrdinal == sel_target.kind = "ord"
IsText == sel_target.kind = "text"
InRange == IsOrdinal /\ 1 <= sel_target.n /\ sel_target.n <= Len(sel_elements)
SelDone == sel_pc = "done"

HasExact == IsText /\ \E i \in DOMAIN sel_elements : sel_elements[i] = sel_target.text
FirstExact ==
    CHOOSE i \in DOMAIN sel_elements :
        /\ sel_elements[i] = sel_target.text
        /\ \A j \in 1..(i - 1) : sel_elements[j] # sel_target.text

Contains(i) ==
    StrIn(sel_target.text, sel_elements[i]) \/ StrIn(sel_elements[i], sel_target.text)
HasContain == IsText /\ \E i \in DOMAIN sel_elements : Contains(i)
FirstContain ==
    CHOOSE i \in DOMAIN sel_elements :
        Contains(i) /\ \A j \in 1..(i - 1) : ~Contains(j)

\* What the call returns once click_fn was called on candidate k: the
\* result of click_fn, or None when click_fn raised.
ReturnedFrom(k) ==
    IF sel_clickRaises THEN sel_result = NoneResult
    ELSE sel_result = Value(sel_elements[k])

\* C1: for an ordinal n with 1 <= n <= |C| the resolver never calls get_text,
\* and when it is done it has selected C[n-1], called activate on it exactly
\* once and on nothing else, and returned what activate returned.
C1_OrdinalSelectsDirectly ==
    InRange =>
        /\ sel_getText = 0
        /\ SelDone =>
              /\ sel_selected = sel_target.n
              /\ sel_clicked = <<sel_target.n>>
              /\ ReturnedFrom(sel_target.n)

C1_Witness ==
    /\ SelDone /\ InRange /\ sel_target.n = 2 /\ ~sel_clickRaises
    /\ sel_elements[1] # sel_elements[2]
    /\ sel_result = Value(sel_elements[2])

\* C2: with a text target that some candidate's text equals exactly, the
\* resolver selects and activates the first such candidate in list order,
\* also when an earlier candidate contains the target or is contained in it.
C2_FirstExactMatchWins ==
    (SelDone /\ HasExact) =>
        /\ sel_selected = FirstExact
        /\ sel_clicked = <<FirstExact>>
        /\ ReturnedFrom(FirstExact)

C2_Witness ==
    /\ SelDone /\ HasExact /\ sel_selected = 2
    /\ Contains(1) /\ sel_elements[1] # sel_target.text
    /\ sel_clicked = <<2>>

\* C3: with a text target that no candidate's text equals, and some
\* candidate's text contains it or is contained in it, the resolver selects
\* and activates the first such candidate in list order; the candidates
\* Prices, Exchange Rates, Money Supply with target Rates give Exchange Rates.
C3_FirstContainmentMatch ==
    /\ (SelDone /\ IsText /\ ~HasExact /\ HasContain) =>
          /\ sel_selected = FirstContain
          /\ sel_clicked = <<FirstContain>>
          /\ ReturnedFrom(FirstContain)
    /\ (/\ SelDone
        /\ sel_elements = <<TxtPrices, TxtExchangeRates, TxtMoneySupply>>
        /\ sel_target = TextTarget(TxtRates)
        /\ ~sel_clickRaises) => sel_result = Value(TxtExchangeRates)

C3_Witness ==
    /\ SelDone
    /\ sel_elements = <<TxtPrices, TxtExchangeRates, TxtMoneySupply>>
    /\ sel_target = TextTarget(TxtRates)
    /\ sel_selected = 2
    /\ sel_result = Value(TxtExchangeRates)

C3_WitnessReverse ==
    /\ SelDone /\ IsText /\ ~HasExact /\ sel_selected = 2
    /\ ~Contains(1)
    /\ ~StrIn(sel_target.text, sel_elements[2])
    /\ StrIn(sel_elements[2], sel_target.text)

\* C4: when no candidate is selectable (a text target with neither an exact
\* nor a containment match, or an ordinal outside 1..|C|) the resolver never
\* calls activate, never raises, and returns None.
NothingSelectable ==
    \/ IsText /\ ~HasExact /\ ~HasContain
    \/ IsOrdinal /\ ~InRange

C4_NotFoundIsNone ==
    /\ sel_result.kind # "raise"
    /\ NothingSelectable =>
          /\ sel_clicked = <<>>
          /\ SelDone => (sel_result = NoneResult /\ sel_selected = 0)

C4_Witness ==
    /\ SelDone /\ IsText /\ NothingSelectable /\ Len(sel_elements) = 2
    /\ sel_getText = 4
    /\ sel_result = NoneResult

C4_WitnessOrdinal ==
    /\ SelDone /\ IsOrdinal /\ sel_target.n = Len(sel_elements) + 1
    /\ Len(sel_elements) > 0
    /\ sel_result = NoneResult /\ sel_clicked = <<>>

\* ---- the table reader, under PtSpec and PtFairSpec ----
\* The for loop visited a row in this step (only the loop takes rows off the batch).
Visit == pt_left' < pt_left

\* The row has cells and its first cell is readable.
Readable(r) == ~r.stale /\ r.n > 0
RowKey(r) == Strip(r.raw)

\* A readable row with a non-empty key not in processed_rows.
FreshRow(r) == Readable(r) /\ RowKey(r) # <<>> /\ RowKey(r) \notin pt_processed
ShortRow(r) == r.n < pt_ncols

\* C5: the output never holds two rows with the same first-column key, and
\* no key is appended a second time, whatever batches are fetched.
C5_NoKeyAddedTwice ==
    /\ \A i, j \in DOMAIN h_added : i # j => h_added[i] # h_added[j]
    /\ pt_ncols > 0 =>
          \A i, j \in DOMAIN pt_data : i # j => pt_data[i][1] # pt_data[j][1]

\* The case of C5: a row added from the first batch is still visible in the
\* second batch and is added again.
C5_RefetchedRowAddedAgain ==
    /\ pt_pc = "scan" /\ h_fetches = 2 /\ h_rows = 2 /\ pt_left = 0
    /\ pt_ncols = 2
    /\ pt_data = << <<K_03_2023, CellText>>, <<K_03_2023, CellText>> >>

\* C6 as stated: a row with a non-empty unseen key and fewer cells than
\* column_names is appended to the output with a mapping of the cells present.
C6_ShortRowAdded ==
    [][(Visit /\ FreshRow(h_last') /\ ShortRow(h_last')) =>
          /\ Len(pt_data') = Len(pt_data) + 1
          /\ Len(pt_data'[Len(pt_data')]) = h_last'.n]_vars

\* C6, amended: a row with a non-empty unseen key and fewer cells than
\* column_names is dropped: the output is left as it was, and the row does
\* not end the read, whatever its key.
C6_ShortRowDropped ==
    [][(Visit /\ FreshRow(h_last') /\ ShortRow(h_last')) =>
          /\ pt_data' = pt_data
          /\ h_added' = h_added
          /\ ~pt_found']_vars

C6_Witness ==
    /\ pt_pc = "scan"
    /\ FreshRow(h_last) /\ ShortRow(h_last)
    /\ RowKey(h_last) = pt_begin
    /\ pt_data = <<>>
    /\ ~pt_found

\* C7: an alternate key exists exactly when the target key has one hyphen,
\* and is then the target with its two components swapped; with a target of
\* zero or of two or more hyphens only a row whose key is the target itself
\* ends the read.
C7_AlternateOnlyForOneHyphen ==
    /\ pt_pc \notin {"idle", "start"} =>
          /\ pt_alt.some <=> CountHyphen(pt_begin) = 1
          /\ pt_alt.some => pt_alt.val = Swapped(pt_begin)
    /\ (pt_found /\ CountHyphen(pt_begin) # 1) =>
          /\ h_added # <<>>
          /\ h_added[Len(h_added)] = pt_begin

C7_Witness ==
    /\ pt_begin = K_01_01_2023
    /\ pt_result.kind = "rows"
    /\ h_added = <<K_2023_01_01, K_01_01_2023>>

\* C8 as stated: with the target 2023-01 a row whose key is 01-2023 does not
\* end the read.
C8_SwappedRowNotAccepted ==
    ~(/\ pt_begin = K_2023_01
      /\ pt_found
      /\ h_added # <<>>
      /\ h_added[Len(h_added)] = K_01_2023)

\* C8, amended: with the target 2023-01 a row whose key is 01-2023 and which
\* has at least as many cells as column_names is appended and ends the read:
\* 01-2023 is the alternate derived from the target (the row key is compared
\* as it is).
C8_SwappedRowAccepted ==
    [][(/\ Visit
        /\ pt_begin = K_2023_01
        /\ FreshRow(h_last') /\ ~ShortRow(h_last')
        /\ RowKey(h_last') = K_01_2023) =>
          /\ pt_found'
          /\ h_added' = Append(h_added, K_01_2023)]_vars

C8_Witness ==
    /\ pt_begin = K_2023_01
    /\ pt_result.kind = "rows"
    /\ h_added = <<K_01_2023>>
    /\ pt_data = << <<K_01_2023, CellText>> >>

C9_WitnessBreak ==
    /\ pt_pc = "done" /\ pt_result.kind = "rows"
    /\ h_skipped > 0
    /\ Len(pt_data) = 1

\* A readable row with the target key or its swapped form.
TargetRow(r) == Readable(r) /\ KeyIsTarget(RowKey(r), pt_begin)

\* C10 as stated: the reader terminates as soon as a fetched row's key equals
\* the target key or its alternate.
C10_AnyTargetRowTerminates ==
    [][(Visit /\ TargetRow(h_last')) => pt_found']_vars

\* C10, amended: a row counts as matching only when it also has at least as
\* many cells as column_names.  After every batch without such a row advance
\* is called exactly once, and the reader fetches again unless the scroll
\* script failed; the first such row visited ends the read, and the reader
\* then returns its rows.  Rows are returned only after such a row was
\* visited; without one the reader fetches and scrolls on, or ends with the
\* empty structure when a browser call outside the row loop fails (reading
\* the headers, the scroll script).
C10_ScrollUntilMatch ==
    /\ [](/\ pt_pc = "fetch" => h_scrolls = h_fetches
          /\ pt_pc \in {"scan", "scroll", "ret"} => h_scrolls + 1 = h_fetches
          /\ pt_pc = "done" =>
                IF pt_found
                THEN pt_result.kind = "rows" /\ h_scrolls + 1 = h_fetches
                ELSE pt_result = EmptyResult /\ h_scrolls = h_fetches)
    /\ [][(Visit /\ TargetRow(h_last') /\ ~ShortRow(h_last')) => pt_found']_vars
    /\ [][(Visit /\ ~(TargetRow(h_last') /\ ~ShortRow(h_last'))) => ~pt_found']_vars
    /\ [][(pt_pc = "scroll" /\ pt_pc' = "fetch") =>
              (~pt_found /\ h_scrolls' = h_scrolls + 1)]_vars
    /\ (pt_found ~> pt_result.kind = "rows")

C10_Witness ==
    /\ pt_pc = "done" /\ pt_result.kind = "rows"
    /\ h_fetches = 2 /\ h_scrolls = 1
    /\ pt_alt.some /\ h_added[Len(h_added)] = pt_alt.val

\* The end of a batch whose last row showed the target key and was short.
C10_WitnessShort ==
    /\ pt_pc = "scan" /\ pt_left = 0 /\ h_fetches = 1
    /\ TargetRow(h_last) /\ ShortRow(h_last)
    /\ ~pt_found

\* C11 as stated: whenever the headers or the scroll container did not become
\* available, parse_table ends with the empty result structure.
C11_UnavailableIsEmpty ==
    (pt_pc = "done" /\ (pt_ncols = 0 \/ ~pt_container)) =>
        pt_result = EmptyResult

\* C11, amended: parse_table never raises to its caller: it ends with the
\* accumulated rows or with the empty structure.  Every exception outside the
\* row loop ends it with the empty structure, and so does every scroll tried
\* on a scroll container that did not become available.  Missing headers
\* raise nothing: the read goes on with no columns and, once the target row
\* is visited, returns one empty mapping per row added.
C11_ExceptionIsEmpty ==
    /\ [](pt_result.kind \in {"pending", "rows", "empty"})
    /\ [](pt_pc = "done" => pt_result.kind \in {"rows", "empty"})
    /\ [][(pt_pc \notin {"ret", "done"} /\ pt_pc' = "done") =>
              pt_result' = EmptyResult]_vars
    /\ [][(pt_pc = "scroll" /\ ~pt_container) =>
              (pt_pc' = "done" /\ pt_result' = EmptyResult)]_vars
    /\ [](pt_pc = "done" /\ pt_result.kind = "rows" => pt_found)
    /\ []((pt_pc = "done" /\ pt_found /\ pt_ncols = 0) =>
              pt_result = RowsResult([i \in 1..Len(h_added) |-> <<>>]))

\* A scroll tried on a missing container ended the read with the empty
\* structure, after rows had been added.
C11_Witness ==
    /\ pt_pc = "done" /\ ~pt_container /\ pt_ncols > 0
    /\ h_scrolls = 1 /\ Len(h_added) > 0
    /\ pt_result = EmptyResult

\* No header became available and the target row was found: rows are returned.
C11_WitnessNoHeaders ==
    /\ pt_pc = "done" /\ pt_ncols = 0 /\ pt_found
    /\ pt_result.kind = "rows" /\ Len(pt_result.val) = 2

\* ---- scrape: what the claims below speak of ----
Called(op) == \E k \in DOMAIN h_calls : h_calls[k] = op
CallCount(op) == Cardinality({k \in DOMAIN h_calls : h_calls[k] = op})
LastCallIs(op) == h_calls # <<>> /\ h_calls[Len(h_calls)] = op
ScDone == sc_pc = "done"
ScRaised == sc_pc = "done" /\ sc_result.kind = "raise"

\* The one-step form of the resolver used by process_single_variable gives
\* what the step machine of _select_base gives.
SelectBaseAgrees ==
    (SelDone /\ IsText) =>
        sel_result = SelectBase(sel_target.text, sel_elements, sel_clickRaises)

\* C12: with an output_format that is neither excel nor a data frame, a run
\* that reached the table read ends with a mapping with the keys data and
\* columns, and explanations when there are some; it does not raise.
C12_PlainMappingReturned ==
    (ScDone /\ ~IsExcel(cfg) /\ ~IsFrame(cfg) /\ Called("parse_table")) =>
        /\ sc_result.kind = "mapping"
        /\ sc_result.val = {"data", "columns"} \cup
              (IF sc_expl.some /\ sc_expl.val # <<>> THEN {"explanations"} ELSE {})

\* The degraded half of C12, which the code does give: the empty structure
\* of parse_table becomes the mapping.
C12_DegradedIsMapping ==
    (ScDone /\ ~IsExcel(cfg) /\ ~IsFrame(cfg) /\ Called("parse_table")
        /\ sc_table = EmptyResult) =>
        /\ sc_result.kind = "mapping"
        /\ {"data", "columns"} \subseteq sc_result.val

\* ---- process_single_variable ----
InPsv == sc_pc = "auto" /\ psv_pc # "idle"
\* The resolver of step j selected and activated a candidate (not None).
Selected(j) == psv_log[j].list = "some" /\ psv_log[j].res.kind = "value"
\* ... and the text it returned is not empty.
Passed(j) == Selected(j) /\ psv_log[j].res.val # <<>>
\* Step j reported NotFound, or found no candidate at all.
NotFound(j) == psv_log[j].list = "empty" \/
               (psv_log[j].list = "some" /\ psv_log[j].res.kind = "none")

\* C13 as stated: the steps run in the order category, subcategory, item,
\* calculation type; a step that reports NotFound or has no candidates is the
\* last one run and the variable returns False; add_to_cart is invoked
\* exactly when each of the four resolvers selected a candidate.
C13_CartIffNoStepNotFound ==
    (InPsv /\ psv_pc = "ret") =>
        /\ \A j \in DOMAIN psv_log : psv_log[j].step = Steps[j]
        /\ \A j \in DOMAIN psv_log :
              NotFound(j) => (j = Len(psv_log) /\ ~psv_ret /\ psv_cart = "none")
        /\ psv_cart # "none" <=>
              (Len(psv_log) = Len(Steps) /\ \A j \in DOMAIN psv_log : Selected(j))

\* C13, amended: the steps run in that order; the first step that reports
\* NotFound, has no candidates, raises, or selects a candidate whose text is
\* empty is the last one run and the variable returns False; add_to_cart is
\* invoked exactly when each of the four steps returned a text that is not
\* empty, and the variable returns True exactly when add_to_cart then
\* returned.
C13_StepsInOrderThenCart ==
    InPsv =>
        /\ Len(psv_log) <= Len(Steps)
        /\ \A j \in DOMAIN psv_log : psv_log[j].step = Steps[j]
        /\ \A j \in DOMAIN psv_log : j < Len(psv_log) => Passed(j)
        /\ psv_pc \in {"category", "subcategory", "item", "calculation_type"} =>
              (Len(psv_log) = StepNo(psv_pc) - 1 /\ psv_cart = "none"
                 /\ \A j \in DOMAIN psv_log : Passed(j))
        /\ psv_pc = "cart" => psv_cart = "none"
        /\ psv_pc \in {"cart", "ret"} =>
              /\ psv_cart # "none" <=>
                    (psv_pc = "ret" /\ Len(psv_log) = Len(Steps)
                       /\ \A j \in DOMAIN psv_log : Passed(j))
        /\ psv_pc = "ret" => (psv_ret <=> psv_cart = "done")

\* The calculation type resolved to a candidate with an empty text: all four
\* resolvers selected, and add_to_cart was not invoked.
C13_Witness ==
    /\ InPsv /\ psv_pc = "ret"
    /\ Len(psv_log) = Len(Steps)
    /\ \A j \in DOMAIN psv_log : Selected(j)
    /\ psv_log[Len(psv_log)].res = Value(<<>>)
    /\ psv_cart = "none" /\ ~psv_ret

\* All four steps passed and add_to_cart returned.
C13_WitnessCart ==
    /\ InPsv /\ psv_pc = "ret"
    /\ \A j \in DOMAIN Steps : j \in DOMAIN psv_log /\ Passed(j)
    /\ psv_cart = "done" /\ psv_ret

\* The item was not found: the fourth step was not run.
C13_WitnessAbort ==
    /\ InPsv /\ psv_pc = "ret"
    /\ Len(psv_log) = StepNo("item")
    /\ psv_log[Len(psv_log)].res = NoneResult /\ psv_log[Len(psv_log)].list = "some"
    /\ psv_cart = "none" /\ ~psv_ret

\* ---- process_variables_automatically ----
LoopOver == sc_pc = "auto" /\ psv_pc = "idle" /\ sc_i > cfg.nvars
VarsWith(c) == {j \in DOMAIN h_vars : h_vars[j].cart = c}
EachVariableOnce ==
    /\ Len(h_vars) = cfg.nvars
    /\ \A j \in DOMAIN h_vars : h_vars[j].i = j

\* C14 as stated: at the end of the loop every variable was processed once,
\* in the configured order, and add_to_cart was invoked as many times as
\* the success count says.
C14_CartCallsEqualSuccessCount ==
    LoopOver =>
        /\ EachVariableOnce
        /\ CallCount("add_to_cart") = sc_success

\* C14, amended: every variable is processed once, in the configured order,
\* whatever the earlier ones gave; the success count is the number of
\* add_to_cart invocations that returned, and an invocation that raised is
\* a failed variable.
C14_EveryVariableOnce ==
    /\ [](sc_pc = "auto" =>
            /\ \A j \in DOMAIN h_vars : h_vars[j].i = j
            /\ Len(h_vars) = sc_i - 1
            /\ sc_i <= cfg.nvars + 1
            /\ sc_success = Cardinality(VarsWith("done"))
            /\ \A j \in DOMAIN h_vars : h_vars[j].ok <=> h_vars[j].cart = "done")
    /\ [](LoopOver =>
            /\ EachVariableOnce
            /\ CallCount("add_to_cart") =
                  Cardinality(VarsWith("done")) + Cardinality(VarsWith("raised"))
            /\ sc_success <= CallCount("add_to_cart"))
    /\ [][(sc_pc = "auto" /\ psv_pc = "ret" /\ sc_i < cfg.nvars) =>
              (sc_pc' = "auto" /\ sc_i' = sc_i + 1)]_vars

\* The first of two variables failed and the second succeeded.
C14_Witness ==
    /\ LoopOver /\ cfg.nvars = 2
    /\ ~h_vars[1].ok /\ h_vars[2].ok
    /\ sc_success = 1

\* add_to_cart was invoked twice and returned once.
C14_WitnessRaised ==
    /\ LoopOver
    /\ CallCount("add_to_cart") = 2 /\ sc_success = 1

\* ---- the phases of scrape ----
Phase(op) ==
    CASE op = "add_to_cart" -> 1
      [] op = "select_frequency" -> 2
      [] op = "set_dates" -> 3
      [] op = "create_report" -> 4
      [] op \in {"save_as_excel", "parse_table"} -> 5
      [] op = "parse_explanations" -> 6

CalledBefore(op, k) == \E j \in 1..(k - 1) : h_calls[j] = op

\* C15: the operations are invoked in the order selecting, select_frequency,
\* set_dates, create_report, export or table read: each of the last four at
\* most once and only after the one before it, set_dates before
\* create_report, and save_as_excel, parse_table and parse_explanations
\* only after create_report.
C15_PhasesInOrder ==
    /\ \A j, k \in DOMAIN h_calls :
          j < k => /\ Phase(h_calls[j]) <= Phase(h_calls[k])
                   /\ Phase(h_calls[k]) > 1 => Phase(h_calls[j]) < Phase(h_calls[k])
    /\ \A k \in DOMAIN h_calls :
          /\ h_calls[k] = "select_frequency" => CalledBefore("add_to_cart", k)
          /\ h_calls[k] = "set_dates" => CalledBefore("select_frequency", k)
          /\ h_calls[k] = "create_report" => CalledBefore("set_dates", k)
          /\ h_calls[k] \in {"save_as_excel", "parse_table", "parse_explanations"}
                => CalledBefore("create_report", k)
          /\ h_calls[k] = "parse_explanations" => CalledBefore("parse_table", k)

\* A whole run: one variable, the frequency, the dates, the report, the table.
C15_Witness ==
    /\ ScDone
    /\ h_calls = <<"add_to_cart", "select_frequency", "set_dates",
                   "create_report", "parse_table", "parse_explanations">>

\* C16: a failed page-load check and a failed set_dates end the run with the
\* exception raised out of scrape; nothing runs after that, so create_report,
\* save_as_excel and parse_table are not invoked in that run.
C16_CriticalFailureIsFatal ==
    /\ [][(sc_pc = "start" /\ sc_pc' \notin {"auto", "interactive"}) =>
              (sc_pc' = "done" /\ sc_result'.kind = "raise" /\ h_calls' = <<>>)]_vars
    /\ [][(sc_pc = "dates" /\ Len(dt_typed') < 2) =>
              (sc_pc' = "done" /\ sc_result'.kind = "raise"
                 /\ h_calls' = Append(h_calls, "set_dates"))]_vars
    /\ [][sc_pc # "done"]_vars
    /\ []((ScRaised /\ (h_calls = <<>> \/ LastCallIs("set_dates"))) =>
              (~Called("create_report") /\ ~Called("save_as_excel")
                 /\ ~Called("parse_table")))
    /\ [](Called("create_report") => Len(dt_typed) = 2)

\* set_dates typed the begin date, did not find the end date field and raised.
C16_Witness ==
    /\ ScRaised /\ LastCallIs("set_dates")
    /\ Len(dt_typed) = 1
    /\ ~Called("create_report")

\* The page did not load.
C16_WitnessPageLoad ==
    /\ ScRaised /\ h_calls = <<>> /\ h_vars = <<>>

\* ---- select_frequency ----
\* select_frequency ran and found the dropdown.
FrequencyTried == Called("select_frequency") /\ fq_options # {}
InVocabulary(k) == PyLower(k) \in DOMAIN FREQUENCIES
Offered(k) == InVocabulary(k) /\ FREQUENCIES[PyLower(k)] \in fq_options
FrequencyRaised == ScRaised /\ LastCallIs("select_frequency")
ConfigError ==
    /\ FrequencyRaised /\ sc_result.val = "ValueError"
    /\ fq_sets = 0 /\ fq_value = "Date"
SetTo(token) == fq_value = token /\ fq_sets = 1 /\ ~FrequencyRaised

\* C17 as stated: for every configured key (every key that is not None) the
\* dropdown is set once to the token of the key when the key, lower-cased,
\* is in the vocabulary and the token is offered, and ValueError is raised
\* with the dropdown unchanged otherwise.
C17_ConfiguredKeySetOrError ==
    (FrequencyTried /\ cfg.frequency.some) =>
        IF Offered(cfg.frequency.val)
        THEN SetTo(FREQUENCIES[PyLower(cfg.frequency.val)])
        ELSE ConfigError

\* C17, amended: the same for every key that is not empty; an empty key is
\* treated as no key, and the dropdown is set once to the option the user
\* chooses.
C17_NonEmptyKeySetOrError ==
    FrequencyTried =>
        IF cfg.frequency.some /\ cfg.frequency.val # <<>>
        THEN IF Offered(cfg.frequency.val)
             THEN SetTo(FREQUENCIES[PyLower(cfg.frequency.val)])
             ELSE ConfigError
        ELSE fq_value \in fq_options /\ fq_sets = 1 /\ ~FrequencyRaised

\* The key Monthly set the dropdown to MONTH.
C17_Witness ==
    /\ FrequencyTried /\ cfg.frequency = Str(W_Monthly)
    /\ fq_value = "MONTH" /\ fq_sets = 1

\* The key biweekly, and the key monthly with no MONTH option: ValueError.
C17_WitnessUnknown ==
    /\ FrequencyTried /\ cfg.frequency = Str(W_biweekly) /\ ConfigError

C17_WitnessNotOffered ==
    /\ FrequencyTried /\ cfg.frequency = Str(W_monthly) /\ ConfigError
    /\ "MONTH" \notin fq_options

\* The empty key: the user chose, nothing was raised.
C17_WitnessEmptyKey ==
    /\ FrequencyTried /\ cfg.frequency = Str(<<>>)
    /\ fq_value = "YEAR" /\ fq_sets = 1 /\ sc_pc = "dates"

\* ---- set_dates ----
AllThreePresent ==
    cfg.frequency.some /\ cfg.begin_date.some /\ cfg.end_date.some

\* C18: automatic date mode holds exactly when frequency, begin_date and
\* end_date are all present.  In it set_dates prompts for nothing and types
\* the two configured dates; out of it set_dates types only after it has
\* prompted for both dates, and types the two answers, stripped.
C18_AutomaticIffAllPresent ==
    /\ IsDateModeAutomatic(cfg) <=> AllThreePresent
    /\ AllThreePresent =>
          /\ dt_asked = <<>>
          /\ Len(dt_typed) >= 1 => dt_typed[1] = cfg.begin_date.val
          /\ Len(dt_typed) = 2 => dt_typed[2] = cfg.end_date.val
    /\ ~AllThreePresent =>
          /\ Len(dt_asked) \in {0, 2}
          /\ dt_typed # <<>> => Len(dt_asked) = 2
          /\ Len(dt_typed) >= 1 => dt_typed[1] = Strip(dt_asked[1])
          /\ Len(dt_typed) = 2 => dt_typed[2] = Strip(dt_asked[2])
    /\ sc_pc \in {"report", "output", "explain", "build"} =>
          /\ Len(dt_typed) = 2
          /\ sc_begin = dt_typed[1]
          /\ AllThreePresent <=> dt_asked = <<>>

\* The configured dates were typed with no prompt.
C18_Witness ==
    /\ sc_pc = "report" /\ AllThreePresent
    /\ dt_asked = <<>>
    /\ dt_typed = <<K_01_2023, K_03_2023>>

\* The frequency is absent, both dates are configured: both were prompted for.
C18_WitnessPrompted ==
    /\ sc_pc = "report"
    /\ ~cfg.frequency.some /\ cfg.begin_date.some /\ cfg.end_date.some
    /\ Len(dt_asked) = 2
    /\ dt_typed = <<K_01_2023, K_01_2023>>

====
